---- MODULE Spec2Model ----
(***************************************************************************)
(* RIASEC career-interest quiz (app.py): scoring engine, tie-break         *)
(* selector, results resolver and the session flow controller.             *)
(*                                                                         *)
(* A Python dict is modelled as the sequence of its items in insertion     *)
(* order, because sorted() is stable and so sees that order.  A Python set *)
(* of strings is a TLA+ set; where the code iterates over one, the         *)
(* iteration order is a nondeterministic choice.                           *)
(***************************************************************************)
EXTENDS Integers, Sequences, FiniteSets, Bags, TLC

(***************************************************************************)
(* Bounds of the model                                                     *)
(***************************************************************************)
\* largest score of a tally drawn as input of the pure functions
MaxScore == 2
\* largest delta drawn as input of identify_tie_pairs
MaxDelta == 2
\* save_answer requests per session that do not answer the question served last
MaxStray == 1

(***************************************************************************)
(* Generic helpers                                                         *)
(***************************************************************************)
\* F applied to the value of e: e is evaluated once, before F
Let(e, F(_)) == CHOOSE r \in {F(x) : x \in {e}} : TRUE

Range(s) == {s[i] : i \in 1..Len(s)}

\* all enumerations without repetition of the finite set S
Perms(S) == {p \in [1..Cardinality(S) -> S] : \A i, j \in 1..Cardinality(S) : p[i] = p[j] => i = j}

RECURSIVE SumOver(_, _)
SumOver(S, f) == IF S = {} THEN 0
                 ELSE LET x == CHOOSE y \in S : TRUE IN f[x] + SumOver(S \ {x}, f)

RECURSIVE Flatten(_)
Flatten(ss) == IF ss = <<>> THEN <<>> ELSE Head(ss) \o Flatten(Tail(ss))

\* one fixed enumeration of the finite set S
RECURSIVE SetToSeq(_)
SetToSeq(S) == IF S = {} THEN <<>>
               ELSE Let(CHOOSE y \in S : TRUE,
                        LAMBDA x : Let(S \ {x}, LAMBDA rest : <<x>> \o SetToSeq(rest)))

\* Python's s[:n]
Take(s, n) == SubSeq(s, 1, IF Len(s) < n THEN Len(s) ELSE n)

(***************************************************************************)
(* RIASEC letters                                                          *)
(***************************************************************************)
\* key order of the dict literal {'R':0,'I':0,'A':0,'S':0,'E':0,'C':0}
RIASEC == <<"R", "I", "A", "S", "E", "C">>
Letters == Range(RIASEC)

\* str comparison of two single upper-case letters (code point order)
Alphabet == <<"A", "C", "E", "I", "R", "S">>
Ord(c) == CHOOSE i \in 1..Len(Alphabet) : Alphabet[i] = c
StrLess(a, b) == Ord(a) < Ord(b)

\* sorted([x, y]) on two letters
Sorted2(x, y) == IF StrLess(y, x) THEN <<y, x>> ELSE <<x, y>>

\* f"{a}-{b}"
PairStr(a, b) == a \o "-" \o b

\* a, b = sorted([x, y]); f"{a}-{b}"
CanonPair(x, y) == PairStr(Sorted2(x, y)[1], Sorted2(x, y)[2])

\* the dict with the given key order and values
RECURSIVE Dict(_, _)
Dict(order, val) ==
  IF order = <<>> THEN <<>>
  ELSE <<[code |-> Head(order), score |-> val[Head(order)]]>> \o Dict(Tail(order), val)

\* the keys of a dict in item form
Keys(d) == {d[i].code : i \in 1..Len(d)}

ZeroTally == Dict(RIASEC, [c \in Letters |-> 0])

(***************************************************************************)
(* Aptitude taxonomy (app.py:25-50)                                        *)
(***************************************************************************)
NEW_APTITUDES == <<"Logical Reasoning", "Mechanical", "Creative", "Verbal Communication",
                   "Numerical", "Social/Helping", "Leadership/Persuasion", "Digital/Computer",
                   "Organizing/Structuring", "Writing/Expression", "Scientific", "Spatial/Design">>

OLD_TO_NEW_APT_MAP == [Analytical |-> <<"Logical Reasoning">>,
                       Technical  |-> <<"Mechanical">>,
                       Spatial    |-> <<"Spatial/Design">>,
                       Verbal     |-> <<"Verbal Communication">>,
                       Creative   |-> <<"Creative">>]

\* the aptitude lists of the eight keyword patterns, in the order of the dict
KEYWORD_TO_APTS == << <<"Mechanical", "Spatial/Design">>,
                      <<"Creative", "Writing/Expression", "Spatial/Design">>,
                      <<"Logical Reasoning", "Scientific", "Numerical">>,
                      <<"Social/Helping", "Verbal Communication">>,
                      <<"Leadership/Persuasion", "Organizing/Structuring">>,
                      <<"Digital/Computer", "Organizing/Structuring">>,
                      <<"Writing/Expression", "Verbal Communication">>,
                      <<"Numerical">> >>

(***************************************************************************)
(* Question banks.  questions/main_questions.py and                        *)
(* questions/tie_breaker_questions.py hold the data; the banks below have  *)
(* the shape the specification gives them: numbers unique and contiguous,  *)
(* the tie-breaker numbers continuing after the main bank, options         *)
(* labelled "A"/"B" carrying a RIASEC letter (or none) and aptitude        *)
(* weights under legacy, current or unknown names, and a pair field on     *)
(* every tie-breaker question.  A text field is given by the set of        *)
(* keyword patterns (indices into KEYWORD_TO_APTS) that re.search finds in *)
(* its lower-cased text.                                                   *)
(***************************************************************************)
NoCode == "none"
NoApts == <<>>

Opt(r, apts) == [riasec |-> r, aptitudes |-> apts]

MainQ(n, a, b, txt) == [number |-> n, options |-> [A |-> a, B |-> b], pair |-> "", text |-> txt]

TieQ(n, p, a, b, txt) == [number |-> n, options |-> [A |-> a, B |-> b], pair |-> p, text |-> txt]

QUESTIONS ==
  << MainQ(1, Opt("R", [Technical |-> 2]), Opt("I", [Analytical |-> 2, Numerical |-> 1]),
              [explain |-> {1, 6}]),
     MainQ(2, Opt("R", [Spatial |-> 1]), Opt("A", [Creative |-> 2, Musical |-> 3]),
              [hint |-> {2}, job_text |-> {2, 7}]),
     MainQ(3, Opt("I", [Scientific |-> 1]), Opt(NoCode, NoApts), <<>>),
     MainQ(4, Opt("R", NoApts), Opt("I", [Verbal |-> 1]), <<>>),
     MainQ(5, Opt("I", NoApts), Opt("A", NoApts), [explain |-> {}]),
     MainQ(6, Opt("A", NoApts), Opt("S", NoApts), <<>>) >>

TIE_BREAKER_QUESTIONS ==
  << TieQ(7, "I-R", Opt("I", [Analytical |-> 1]), Opt("R", [Technical |-> 1]), <<>>),
     TieQ(8, "A-I", Opt("A", [Creative |-> 1]), Opt("I", NoApts), <<>>),
     TieQ(9, "I-R", Opt("R", NoApts), Opt("I", NoApts), <<>>),
     TieQ(10, "I-R", Opt("I", NoApts), Opt("R", NoApts), <<>>),
     TieQ(11, "A-E", Opt("A", [Verbal |-> 1]), Opt("E", [Numerical |-> 1]), [hint |-> {5}]) >>

\* app.config.get('TIE_BREAKER_DELTA', 1)
TIE_BREAKER_DELTA == 1

(***************************************************************************)
(* Question numbers as answer keys: str(qnum) and int(qnum_key)            *)
(***************************************************************************)
\* decimal numerals of 0..12; DecStr[n + 1] is str(n)
DecStr == <<"0", "1", "2", "3", "4", "5", "6", "7", "8", "9", "10", "11", "12">>
QNums == 0..(Len(DecStr) - 1)

\* str(qnum)
Str(n) == DecStr[n + 1]

\* int(qnum_key) succeeds
IsInt(k) == \E n \in QNums : Str(n) = k

\* int(qnum_key)
ParseInt(k) == CHOOSE n \in QNums : Str(n) = k

\* next((q for q in bank if q['number'] == qnum), None): the matching questions
Lookup(bank, qnum) == SelectSeq(bank, LAMBDA q : q.number = qnum)

(***************************************************************************)
(* enrich_from_text (app.py:68-77)                                         *)
(***************************************************************************)
\* boosts[a] for the text whose matching patterns are `matched`
enrich_from_text(matched) ==
  [a \in Range(NEW_APTITUDES) |->
     Cardinality({p \in matched : a \in Range(KEYWORD_TO_APTS[p])})]

TEXT_FIELDS == <<"explain", "hint", "job_text">>

(***************************************************************************)
(* calculate_scores (app.py:82-136)                                        *)
(***************************************************************************)
\* riasec_scores[code] += 1
RECURSIVE IncTally(_, _)
IncTally(t, c) ==
  IF t = <<>> THEN <<>>
  ELSE <<IF Head(t).code = c THEN [Head(t) EXCEPT !.score = @ + 1] ELSE Head(t)>>
       \o IncTally(Tail(t), c)

\* the weight one option's aptitude mapping adds to aptitude a (lines 116-126)
AptGain(option_apts, a) ==
  LET gain == [old_key \in DOMAIN option_apts |->
                 IF old_key \in DOMAIN OLD_TO_NEW_APT_MAP
                 THEN Cardinality({j \in 1..Len(OLD_TO_NEW_APT_MAP[old_key]) :
                                      OLD_TO_NEW_APT_MAP[old_key][j] = a}) * option_apts[old_key]
                 ELSE IF old_key \in Range(NEW_APTITUDES) /\ old_key = a
                 THEN option_apts[old_key]
                 ELSE 0]
  IN SumOver(DOMAIN option_apts, gain)

\* the boosts of the question's text fields for aptitude a (lines 129-134)
TextGain(question, a) ==
  LET present == {f \in Range(TEXT_FIELDS) : f \in DOMAIN question.text}
      boost   == [f \in present |-> enrich_from_text(question.text[f])[a]]
  IN SumOver(present, boost)

\* ResolveEntry with every question number looked up in the main bank
ResolveEntry_MainOnly(qnum_key, selected) ==
  IF ~IsInt(qnum_key) THEN <<>>
  ELSE LET found == Lookup(QUESTIONS, ParseInt(qnum_key))
       IN IF found = <<>> THEN <<>>
          ELSE IF selected \notin DOMAIN Head(found).options THEN <<>>
          ELSE <<[question |-> Head(found), option |-> Head(found).options[selected]]>>

\* ResolveEntry with a label of no option taken as the question's option "A"
ResolveEntry_DefaultOption(qnum_key, selected) ==
  IF ~IsInt(qnum_key) THEN <<>>
  ELSE LET qnum  == ParseInt(qnum_key)
           found == IF qnum <= Len(QUESTIONS) THEN Lookup(QUESTIONS, qnum)
                    ELSE Lookup(TIE_BREAKER_QUESTIONS, qnum)
       IN IF found = <<>> THEN <<>>
          ELSE IF selected \notin DOMAIN Head(found).options
          THEN <<[question |-> Head(found), option |-> Head(found).options["A"]]>>
          ELSE <<[question |-> Head(found), option |-> Head(found).options[selected]]>>

\* lines 91-108 on the entry (qnum_key, selected): <<>> when the entry is
\* skipped, else the question and the chosen option
ResolveEntry(qnum_key, selected) ==
  IF ~IsInt(qnum_key) THEN <<>>
  ELSE LET qnum  == ParseInt(qnum_key)
           found == IF qnum <= Len(QUESTIONS) THEN Lookup(QUESTIONS, qnum)
                    ELSE Lookup(TIE_BREAKER_QUESTIONS, qnum)
       IN IF found = <<>> THEN <<>>
          ELSE IF selected \notin DOMAIN Head(found).options THEN <<>>
          ELSE <<[question |-> Head(found), option |-> Head(found).options[selected]]>>

\* lines 110-113: what one entry does to riasec_scores
ScoreRiasec(scores, qnum_key, selected) ==
  LET e == ResolveEntry(qnum_key, selected)
  IN IF e = <<>> THEN scores
     ELSE IF e[1].option.riasec \in Keys(scores) THEN IncTally(scores, e[1].option.riasec)
     ELSE scores

\* lines 115-134: what one entry does to aptitude_scores
ScoreAptitude(apts, qnum_key, selected, use_text_enrichment) ==
  LET e == ResolveEntry(qnum_key, selected)
  IN IF e = <<>> THEN apts
     ELSE [a \in Range(NEW_APTITUDES) |->
             apts[a] + AptGain(e[1].option.aptitudes, a)
             + IF use_text_enrichment THEN TextGain(e[1].question, a) ELSE 0]

\* the loop of lines 90-134 as far as it writes riasec_scores
RECURSIVE RiasecLoop(_, _, _)
RiasecLoop(scores, todo, ans) ==
  IF todo = {} THEN scores
  ELSE Let(CHOOSE x \in todo : TRUE,
           LAMBDA k : Let(ScoreRiasec(scores, k, ans[k]),
                          LAMBDA next : RiasecLoop(next, todo \ {k}, ans)))

\* the loop of lines 90-134 as far as it writes aptitude_scores
RECURSIVE AptitudeLoop(_, _, _, _)
AptitudeLoop(apts, todo, ans, use_text_enrichment) ==
  IF todo = {} THEN apts
  ELSE LET k == CHOOSE x \in todo : TRUE
       IN AptitudeLoop(ScoreAptitude(apts, k, ans[k], use_text_enrichment), todo \ {k}, ans,
                       use_text_enrichment)

\* the first component of the pair calculate_scores returns
calculate_riasec(ans) == RiasecLoop(ZeroTally, DOMAIN ans, ans)

\* the second component of the pair calculate_scores returns
calculate_aptitude(ans, use_text_enrichment) ==
  AptitudeLoop([a \in Range(NEW_APTITUDES) |-> 0], DOMAIN ans, ans, use_text_enrichment)

\* returns (riasec_scores, aptitude_scores)
calculate_scores(ans, use_text_enrichment) ==
  [riasec |-> calculate_riasec(ans), aptitude |-> calculate_aptitude(ans, use_text_enrichment)]

(***************************************************************************)
(* identify_tie_pairs (app.py:141-173)                                     *)
(***************************************************************************)
\* sorted(riasec_scores.items(), key=lambda x: x[1], reverse=True): a stable
\* sort, items of equal score keep the order they have in the dict
\* (insertion from the left: an item goes behind the items of equal score)
RECURSIVE InsertByScore(_, _)
InsertByScore(sorted, x) ==
  IF sorted = <<>> THEN <<x>>
  ELSE IF Head(sorted).score >= x.score THEN <<Head(sorted)>> \o InsertByScore(Tail(sorted), x)
  ELSE <<x>> \o sorted

RECURSIVE SortedByScore(_)
SortedByScore(items) ==
  IF items = <<>> THEN <<>>
  ELSE Let(SortedByScore(SubSeq(items, 1, Len(items) - 1)),
           LAMBDA sorted : InsertByScore(sorted, items[Len(items)]))

\* all pairs among the codes of a list of items
PairsAmong(its) ==
  {CanonPair(its[i].code, its[j].code) :
     <<i, j>> \in {ij \in (1..Len(its)) \X (1..Len(its)) : ij[1] < ij[2]}}

\* identify_tie_pairs comparing the score differences with <= delta
identify_tie_pairs_Inclusive(riasec_scores, delta) ==
  LET sorted_by_score == SortedByScore(riasec_scores)
  IN IF Len(sorted_by_score) < 3 THEN {}
     ELSE LET first  == sorted_by_score[1]
              second == sorted_by_score[2]
              third  == sorted_by_score[3]
              third_place_codes ==
                SelectSeq(sorted_by_score, LAMBDA it : it.score = third.score)
          IN (IF first.score - second.score <= delta
              THEN {CanonPair(first.code, second.code)} ELSE {})
             \cup (IF second.score - third.score <= delta
                   THEN {CanonPair(second.code, third.code)} ELSE {})
             \cup (IF Len(third_place_codes) > 1 THEN PairsAmong(third_place_codes) ELSE {})

\* identify_tie_pairs with the third-place group taken from the third rank on
identify_tie_pairs_BeyondTopTwo(riasec_scores, delta) ==
  LET sorted_by_score == SortedByScore(riasec_scores)
  IN IF Len(sorted_by_score) < 3 THEN {}
     ELSE LET first  == sorted_by_score[1]
              second == sorted_by_score[2]
              third  == sorted_by_score[3]
              third_place_codes ==
                SelectSeq(SubSeq(sorted_by_score, 3, Len(sorted_by_score)),
                          LAMBDA it : it.score = third.score)
          IN (IF first.score - second.score < delta
              THEN {CanonPair(first.code, second.code)} ELSE {})
             \cup (IF second.score - third.score < delta
                   THEN {CanonPair(second.code, third.code)} ELSE {})
             \cup (IF Len(third_place_codes) > 1 THEN PairsAmong(third_place_codes) ELSE {})

\* identify_tie_pairs with the score differences taken the other way round
identify_tie_pairs_Reversed(riasec_scores, delta) ==
  LET sorted_by_score == SortedByScore(riasec_scores)
  IN IF Len(sorted_by_score) < 3 THEN {}
     ELSE LET first  == sorted_by_score[1]
              second == sorted_by_score[2]
              third  == sorted_by_score[3]
              third_place_codes ==
                SelectSeq(sorted_by_score, LAMBDA it : it.score = third.score)
          IN (IF second.score - first.score < delta
              THEN {CanonPair(first.code, second.code)} ELSE {})
             \cup (IF third.score - second.score < delta
                   THEN {CanonPair(second.code, third.code)} ELSE {})
             \cup (IF Len(third_place_codes) > 1 THEN PairsAmong(third_place_codes) ELSE {})

identify_tie_pairs(riasec_scores, delta) ==
  LET sorted_by_score == SortedByScore(riasec_scores)
  IN IF Len(sorted_by_score) < 3 THEN {}
     ELSE LET first  == sorted_by_score[1]
              second == sorted_by_score[2]
              third  == sorted_by_score[3]
              top    == IF first.score - second.score < delta
                        THEN {CanonPair(first.code, second.code)} ELSE {}
              mid    == IF second.score - third.score < delta
                        THEN {CanonPair(second.code, third.code)} ELSE {}
              third_place_codes ==
                SelectSeq(sorted_by_score, LAMBDA it : it.score = third.score)
              low    == IF Len(third_place_codes) > 1 THEN PairsAmong(third_place_codes)
                        ELSE {}
          IN top \cup mid \cup low

\* needs_tie_breaker (app.py:189-192)
needs_tie_breaker(riasec_scores) ==
  Cardinality(identify_tie_pairs(riasec_scores, TIE_BREAKER_DELTA)) > 0

(***************************************************************************)
(* get_questions_for_pairs (app.py:175-187)                                *)
(***************************************************************************)
\* get_questions_for_pairs without the test `pair in already_asked`
get_questions_for_pairs_IgnoreAsked(pairs, already_asked) ==
  LET matched(pair) == SelectSeq(TIE_BREAKER_QUESTIONS, LAMBDA q : q.pair = pair)
      step[i \in 1..Len(pairs)] == Take(matched(pairs[i]), 2)
  IN Flatten(step)

\* get_questions_for_pairs without the slice [:2]
get_questions_for_pairs_NoCap(pairs, already_asked) ==
  LET matched(pair) == SelectSeq(TIE_BREAKER_QUESTIONS, LAMBDA q : q.pair = pair)
      step[i \in 1..Len(pairs)] ==
        IF pairs[i] \in already_asked THEN <<>> ELSE matched(pairs[i])
  IN Flatten(step)

\* `pairs` is the sequence in which the for loop visits the set of pairs
get_questions_for_pairs(pairs, already_asked) ==
  LET matched(pair) == SelectSeq(TIE_BREAKER_QUESTIONS, LAMBDA q : q.pair = pair)
      step[i \in 1..Len(pairs)] ==
        IF pairs[i] \in already_asked THEN <<>>
        ELSE IF matched(pairs[i]) # <<>> THEN Take(matched(pairs[i]), 2)
        ELSE <<>>
  IN Flatten(step)

\* the pairs some tie-breaker question is about
BankPairs == {TIE_BREAKER_QUESTIONS[i].pair : i \in 1..Len(TIE_BREAKER_QUESTIONS)}

\* The orders in which a for loop may visit the set S of pair strings.  A pair
\* without a question in the bank adds nothing to the result wherever it is
\* visited, so such pairs are visited last, in one fixed order.
IterOrders(S) ==
  LET live == S \cap BankPairs
  IN {p \o SetToSeq(S \ live) : p \in Perms(live)}

(***************************************************************************)
(* resolve_riasec_code (app.py:315-323)                                    *)
(***************************************************************************)
\* sorted(riasec_scores.items(), key=lambda x: (-x[1], x[0]))
\* (-x[1], x[0]) of y is not greater than that of x
KeyNotGreater(y, x) ==
  \/ y.score > x.score
  \/ y.score = x.score /\ ~StrLess(x.code, y.code)

RECURSIVE InsertByScoreThenLetter(_, _)
InsertByScoreThenLetter(sorted, x) ==
  IF sorted = <<>> THEN <<x>>
  ELSE IF KeyNotGreater(Head(sorted), x)
  THEN <<Head(sorted)>> \o InsertByScoreThenLetter(Tail(sorted), x)
  ELSE <<x>> \o sorted

RECURSIVE SortedByScoreThenLetter(_)
SortedByScoreThenLetter(items) ==
  IF items = <<>> THEN <<>>
  ELSE Let(SortedByScoreThenLetter(SubSeq(items, 1, Len(items) - 1)),
           LAMBDA sorted : InsertByScoreThenLetter(sorted, items[Len(items)]))

\* ''.join of a list of letters
RECURSIVE Join(_)
Join(cs) == IF cs = <<>> THEN "" ELSE Head(cs) \o Join(Tail(cs))

\* resolve_riasec_code sorting by score alone
resolve_riasec_code_ByScoreOnly(riasec_scores) ==
  LET top3 == Take(SortedByScore(riasec_scores), 3)
  IN Join([i \in 1..Len(top3) |-> top3[i].code])

resolve_riasec_code(riasec_scores) ==
  LET ordered == SortedByScoreThenLetter(riasec_scores)
      top3    == Take(ordered, 3)
  IN Join([i \in 1..Len(top3) |-> top3[i].code])

(***************************************************************************)
(* State                                                                   *)
(***************************************************************************)
VARIABLES
  started,                  \* 'current_question' in session
  current_question,         \* session['current_question']
  answers,                  \* session['answers']: str(question number) -> label
  riasec_scores,            \* session['riasec_scores']
  tie_breaker_phase,        \* session['tie_breaker_phase']
  tie_breaker_questions,    \* session['tie_breaker_questions']
  tie_breaker_pairs_asked,  \* session['tie_breaker_pairs_asked']: a list read only
                            \* through `in` and set(), kept as the bag of its elements
  tie_breaker_answered,     \* session['tie_breaker_answered']
  total_questions,          \* session['total_questions']
  resp,                     \* what the last request returned
  done,                     \* history: assessment has redirected to submit_all_answers
                            \* since the session was started
  strays,                   \* history: save_answer requests so far that did not answer
                            \* the question served last
  call,                     \* the pure function applied and its arguments
  result                    \* what it returned

session == <<started, current_question, answers, riasec_scores, tie_breaker_phase,
             tie_breaker_questions, tie_breaker_pairs_asked, tie_breaker_answered,
             total_questions>>

vars == <<started, current_question, answers, riasec_scores, tie_breaker_phase,
          tie_breaker_questions, tie_breaker_pairs_asked, tie_breaker_answered,
          total_questions, resp, done, strays, call, result>>

NoAnswers == <<>>
NoCall == [fn |-> "none"]
NoResult == [status |-> "none"]

\* the empty session: before the first start and after session.clear()
SessionCleared ==
  /\ started = FALSE
  /\ current_question = 0
  /\ answers = NoAnswers
  /\ riasec_scores = <<>>
  /\ tie_breaker_phase = FALSE
  /\ tie_breaker_questions = <<>>
  /\ tie_breaker_pairs_asked = EmptyBag
  /\ tie_breaker_answered = 0
  /\ total_questions = 0

Redirect(route, to) == [route |-> route, kind |-> "redirect", to |-> to]

Init ==
  /\ SessionCleared
  /\ resp = [route |-> "none", kind |-> "none"]
  /\ done = FALSE
  /\ strays = 0
  /\ call = NoCall
  /\ result = NoResult

(***************************************************************************)
(* initialize_session and start_assessment (app.py:55-63, 201-204)         *)
(***************************************************************************)
\* initialize_session that sets no total
initialize_session_NoTotal ==
  /\ current_question' = 1
  /\ answers' = NoAnswers
  /\ riasec_scores' = ZeroTally
  /\ tie_breaker_phase' = FALSE
  /\ tie_breaker_questions' = <<>>
  /\ tie_breaker_pairs_asked' = EmptyBag
  /\ tie_breaker_answered' = 0
  /\ total_questions' = 0

initialize_session ==
  /\ current_question' = 1
  /\ answers' = NoAnswers
  /\ riasec_scores' = ZeroTally
  /\ tie_breaker_phase' = FALSE
  /\ tie_breaker_questions' = <<>>
  /\ tie_breaker_pairs_asked' = EmptyBag
  /\ tie_breaker_answered' = 0
  /\ total_questions' = Len(QUESTIONS)

start_assessment ==
  /\ initialize_session
  /\ started' = TRUE
  /\ resp' = Redirect("start_assessment", "assessment")
  /\ done' = FALSE
  /\ strays' = 0
  /\ UNCHANGED <<call, result>>

(***************************************************************************)
(* restart (app.py:359-362)                                                *)
(***************************************************************************)
\* session.clear()
clear_session ==
  /\ started' = FALSE
  /\ current_question' = 0
  /\ answers' = NoAnswers
  /\ riasec_scores' = <<>>
  /\ tie_breaker_phase' = FALSE
  /\ tie_breaker_questions' = <<>>
  /\ tie_breaker_pairs_asked' = EmptyBag
  /\ tie_breaker_answered' = 0
  /\ total_questions' = 0

restart ==
  /\ clear_session
  /\ resp' = Redirect("restart", "index")
  /\ done' = FALSE
  /\ strays' = 0
  /\ UNCHANGED <<call, result>>

(***************************************************************************)
(* assessment (app.py:206-274)                                             *)
(***************************************************************************)
Serve(phase, q, total, current) ==
  [route |-> "assessment", kind |-> "question", phase |-> phase, question |-> q,
   total_questions |-> total, current_question |-> current]

\* MarkAsked that marks nothing
MarkAsked_Nothing(asked, to_mark) == asked

\* list(set(session['tie_breaker_pairs_asked']) | set(to_mark))
MarkAsked(asked, to_mark) == SetToBag(BagToSet(asked) \cup to_mark)

\* lines 209-210: no session
AssessmentNoSession ==
  /\ ~started
  /\ resp' = Redirect("assessment", "index")
  /\ UNCHANGED <<session, done, strays>>

\* lines 214-218: serve the main question under the pointer
AssessmentServeMain ==
  /\ started /\ ~tie_breaker_phase
  /\ current_question <= Len(QUESTIONS)
  /\ resp' = Serve("main", QUESTIONS[current_question], Len(QUESTIONS), current_question)
  /\ UNCHANGED <<session, done, strays>>

\* lines 219-243: main bank exhausted, evaluate the tie-breakers
AssessmentMainFinished ==
  /\ started /\ ~tie_breaker_phase
  /\ ~(current_question <= Len(QUESTIONS))
  /\ \E scores \in {calculate_riasec(answers)} :
     \E pairs_needed \in {identify_tie_pairs(scores, TIE_BREAKER_DELTA)} :
     \E already \in {BagToSet(tie_breaker_pairs_asked)} :
       IF pairs_needed # {}
       THEN \E order \in IterOrders(pairs_needed) :
            \E new_qs \in {get_questions_for_pairs(order, already)} :
              /\ tie_breaker_phase' = TRUE
              /\ IF new_qs = <<>>
                 THEN /\ resp' = Redirect("assessment", "submit_all_answers")
                      /\ done' = TRUE
                      /\ UNCHANGED <<tie_breaker_questions, tie_breaker_pairs_asked,
                                     tie_breaker_answered, total_questions>>
                 ELSE /\ tie_breaker_questions' = new_qs
                      /\ tie_breaker_pairs_asked' =
                           MarkAsked(tie_breaker_pairs_asked,
                                     {p \in pairs_needed : p \notin already})
                      /\ tie_breaker_answered' = 0
                      /\ total_questions' = Len(QUESTIONS) + Len(new_qs)
                      /\ resp' = Redirect("assessment", "assessment")
                      /\ UNCHANGED done
       ELSE /\ resp' = Redirect("assessment", "submit_all_answers")
            /\ done' = TRUE
            /\ UNCHANGED <<tie_breaker_phase, tie_breaker_questions, tie_breaker_pairs_asked,
                           tie_breaker_answered, total_questions>>
  /\ UNCHANGED <<started, current_question, answers, riasec_scores>>

\* AssessmentServeTie that serves the last question of the batch
AssessmentServeTie_Last ==
  /\ started /\ tie_breaker_phase
  /\ tie_breaker_answered < Len(tie_breaker_questions)
  /\ resp' = Serve("tie_breaker", tie_breaker_questions[Len(tie_breaker_questions)],
                   total_questions, Len(QUESTIONS) + tie_breaker_answered + 1)
  /\ UNCHANGED <<session, done, strays>>

\* lines 246-253: serve the tie-breaker question under the answered counter
AssessmentServeTie ==
  /\ started /\ tie_breaker_phase
  /\ tie_breaker_answered < Len(tie_breaker_questions)
  /\ resp' = Serve("tie_breaker", tie_breaker_questions[tie_breaker_answered + 1],
                   total_questions, Len(QUESTIONS) + tie_breaker_answered + 1)
  /\ UNCHANGED <<session, done, strays>>

\* AssessmentTieFinished with the new questions put in place of the batch
AssessmentTieFinished_Replace ==
  /\ started /\ tie_breaker_phase
  /\ ~(tie_breaker_answered < Len(tie_breaker_questions))
  /\ \E scores \in {calculate_riasec(answers)} :
     \E pairs_needed \in {identify_tie_pairs(scores, TIE_BREAKER_DELTA)} :
     \E already \in {BagToSet(tie_breaker_pairs_asked)} :
     \E remaining_pairs \in {pairs_needed \ already} :
       IF remaining_pairs # {}
       THEN \E order \in IterOrders(remaining_pairs) :
            \E new_qs \in {get_questions_for_pairs(order, already)} :
              IF new_qs = <<>>
              THEN /\ resp' = Redirect("assessment", "submit_all_answers")
                   /\ done' = TRUE
                   /\ UNCHANGED <<tie_breaker_questions, tie_breaker_pairs_asked,
                                  total_questions>>
              ELSE /\ tie_breaker_questions' = new_qs
                   /\ tie_breaker_pairs_asked' =
                        MarkAsked(tie_breaker_pairs_asked,
                                  {p \in remaining_pairs : p \notin already})
                   /\ total_questions' = total_questions + Len(new_qs)
                   /\ resp' = Redirect("assessment", "assessment")
                   /\ UNCHANGED done
       ELSE /\ resp' = Redirect("assessment", "submit_all_answers")
            /\ done' = TRUE
            /\ UNCHANGED <<tie_breaker_questions, tie_breaker_pairs_asked, total_questions>>
  /\ UNCHANGED <<started, current_question, answers, riasec_scores, tie_breaker_phase,
                 tie_breaker_answered>>

\* lines 254-274: the assigned tie-breakers are answered, look for further pairs
AssessmentTieFinished ==
  /\ started /\ tie_breaker_phase
  /\ ~(tie_breaker_answered < Len(tie_breaker_questions))
  /\ \E scores \in {calculate_riasec(answers)} :
     \E pairs_needed \in {identify_tie_pairs(scores, TIE_BREAKER_DELTA)} :
     \E already \in {BagToSet(tie_breaker_pairs_asked)} :
     \E remaining_pairs \in {pairs_needed \ already} :
       IF remaining_pairs # {}
       THEN \E order \in IterOrders(remaining_pairs) :
            \E new_qs \in {get_questions_for_pairs(order, already)} :
              IF new_qs = <<>>
              THEN /\ resp' = Redirect("assessment", "submit_all_answers")
                   /\ done' = TRUE
                   /\ UNCHANGED <<tie_breaker_questions, tie_breaker_pairs_asked,
                                  total_questions>>
              ELSE /\ tie_breaker_questions' = tie_breaker_questions \o new_qs
                   /\ tie_breaker_pairs_asked' =
                        MarkAsked(tie_breaker_pairs_asked,
                                  {p \in remaining_pairs : p \notin already})
                   /\ total_questions' = total_questions + Len(new_qs)
                   /\ resp' = Redirect("assessment", "assessment")
                   /\ UNCHANGED done
       ELSE /\ resp' = Redirect("assessment", "submit_all_answers")
            /\ done' = TRUE
            /\ UNCHANGED <<tie_breaker_questions, tie_breaker_pairs_asked, total_questions>>
  /\ UNCHANGED <<started, current_question, answers, riasec_scores, tie_breaker_phase,
                 tie_breaker_answered>>

assessment ==
  /\ \/ AssessmentNoSession
     \/ AssessmentServeMain
     \/ AssessmentMainFinished
     \/ AssessmentServeTie
     \/ AssessmentTieFinished
  /\ UNCHANGED <<strays, call, result>>

(***************************************************************************)
(* save_answer (app.py:276-307)                                            *)
(***************************************************************************)
\* labels a request may carry as its answer
Labels == {"A", "B"}

\* question numbers a request may carry when it does not answer the question
\* served last: a main question and a tie-breaker question
StrayQNums == {3, 8}

\* the answer such a request carries
StrayLabel == [n \in StrayQNums |-> IF n <= Len(QUESTIONS) THEN "B" ELSE "A"]

\* the request answers the question the last response served
InTurn(qnum) == resp.kind = "question" /\ resp.question.number = qnum

QNumInputs == StrayQNums \cup {QUESTIONS[i].number : i \in 1..Len(QUESTIONS)}
              \cup {TIE_BREAKER_QUESTIONS[i].number : i \in 1..Len(TIE_BREAKER_QUESTIONS)}

\* request.get_json(): a field that is absent or null is <<>>, else <<value>>
Payloads == [question_number : {<<n>> : n \in QNumInputs}, answer : {<<a>> : a \in Labels}]

MissingPayloads == {[question_number |-> <<>>, answer |-> <<"A">>],
                    [question_number |-> <<3>>, answer |-> <<>>],
                    [question_number |-> <<>>, answer |-> <<>>]}

\* session['answers'][str(qnum)] = ans
PutAnswer(ans, key, val) == [k \in DOMAIN ans \cup {key} |-> IF k = key THEN val ELSE ans[k]]

\* RecordPair without the test `pair not in session['tie_breaker_pairs_asked']`
RecordPair_Always(asked, qnum) ==
  IF qnum > Len(QUESTIONS)
  THEN LET qobj == Lookup(TIE_BREAKER_QUESTIONS, qnum)
       IN IF qobj # <<>> /\ Head(qobj).pair # ""
          THEN asked (+) SetToBag({Head(qobj).pair})
          ELSE asked
  ELSE asked

\* lines 292-298: the pair of an answered tie-breaker question is recorded
RecordPair(asked, qnum) ==
  IF qnum > Len(QUESTIONS)
  THEN LET qobj == Lookup(TIE_BREAKER_QUESTIONS, qnum)
       IN IF qobj # <<>> /\ Head(qobj).pair # "" /\ ~BagIn(Head(qobj).pair, asked)
          THEN asked (+) SetToBag({Head(qobj).pair})
          ELSE asked
  ELSE asked

Json(success, extra) == [route |-> "save_answer", kind |-> "json", success |-> success,
                         info |-> extra]

\* save_answer reporting success without a session
SaveAnswerNoSession_Success ==
  /\ ~started
  /\ resp' = Json(TRUE, "redirect assessment")
  /\ UNCHANGED <<session, done>>

\* lines 278-279
SaveAnswerNoSession ==
  /\ ~started
  /\ resp' = Json(FALSE, "redirect index")
  /\ UNCHANGED <<session, done>>

\* lines 285-286
SaveAnswerMissingPayload ==
  /\ started
  /\ \E data \in MissingPayloads :
       /\ data.question_number = <<>> \/ data.answer = <<>>
       /\ resp' = Json(FALSE, "missing payload")
  /\ UNCHANGED <<session, done>>

\* RecordAnswer that leaves tie_breaker_answered as it is
RecordAnswer_NoAdvance(qnum, ans) ==
  /\ answers' = PutAnswer(answers, Str(qnum), ans)
  /\ tie_breaker_pairs_asked' = RecordPair(tie_breaker_pairs_asked, qnum)
  /\ IF ~tie_breaker_phase
     THEN /\ current_question' = current_question + 1
          /\ UNCHANGED tie_breaker_answered
     ELSE /\ UNCHANGED tie_breaker_answered
          /\ current_question' = Len(QUESTIONS) + tie_breaker_answered + 1
  /\ resp' = Json(TRUE, "redirect assessment")
  /\ UNCHANGED <<started, riasec_scores, tie_breaker_phase, tie_breaker_questions,
                 total_questions, done>>

\* lines 288-307 for the request {question_number: qnum, answer: ans}
RecordAnswer(qnum, ans) ==
  /\ answers' = PutAnswer(answers, Str(qnum), ans)
  /\ tie_breaker_pairs_asked' = RecordPair(tie_breaker_pairs_asked, qnum)
  /\ IF ~tie_breaker_phase
     THEN /\ current_question' = current_question + 1
          /\ UNCHANGED tie_breaker_answered
     ELSE /\ tie_breaker_answered' = tie_breaker_answered + 1
          /\ current_question' = Len(QUESTIONS) + tie_breaker_answered' + 1
  /\ resp' = Json(TRUE, "redirect assessment")
  /\ UNCHANGED <<started, riasec_scores, tie_breaker_phase, tie_breaker_questions,
                 total_questions, done>>

\* lines 281-307: a request with both fields; one that does not answer the
\* question served last counts as a stray
SaveAnswerRecord ==
  /\ started
  /\ \E data \in Payloads :
       /\ data.question_number # <<>> /\ data.answer # <<>>
       /\ LET qnum == data.question_number[1]
              ans  == data.answer[1]
          IN /\ IF InTurn(qnum) THEN UNCHANGED strays
                ELSE /\ qnum \in StrayQNums /\ ans = StrayLabel[qnum]
                     /\ strays < MaxStray
                     /\ strays' = strays + 1
             /\ RecordAnswer(qnum, ans)

save_answer ==
  /\ \/ SaveAnswerNoSession /\ UNCHANGED strays
     \/ SaveAnswerMissingPayload /\ UNCHANGED strays
     \/ SaveAnswerRecord
  /\ UNCHANGED <<call, result>>

(***************************************************************************)
(* submit_all_answers (app.py:309-313)                                     *)
(***************************************************************************)
submit_all_answers ==
  /\ resp' = IF ~started \/ answers = NoAnswers
             THEN Redirect("submit_all_answers", "index")
             ELSE Redirect("submit_all_answers", "results")
  /\ UNCHANGED <<session, done, strays, call, result>>

(***************************************************************************)
(* results (app.py:325-357)                                                *)
(***************************************************************************)
\* sorted(d.items(), key=lambda x: x[1], reverse=True)[:3]
TopThree(items) == Take(SortedByScore(items), 3)

\* max(d.values(), default=1)
RECURSIVE MaxOf(_, _)
MaxOf(items, m) ==
  IF items = <<>> THEN m
  ELSE MaxOf(Tail(items), IF Head(items).score > m THEN Head(items).score ELSE m)

MaxValue(items) == IF items = <<>> THEN 1 ELSE MaxOf(Tail(items), Head(items).score)

\* the keyword arguments of render_template('results.html', ...); both
\* tallies are dicts in item form
ResultsPage(riasec, aptitude) ==
  LET riasec_scores_   == IF riasec = <<>> THEN ZeroTally ELSE riasec
      aptitude_scores_ == IF aptitude = <<>>
                          THEN Dict(NEW_APTITUDES, [a \in Range(NEW_APTITUDES) |-> 0])
                          ELSE aptitude
  IN [route |-> "results", kind |-> "page",
      riasec_code         |-> resolve_riasec_code(riasec_scores_),
      top_riasec          |-> TopThree(riasec_scores_),
      top_aptitudes       |-> TopThree(aptitude_scores_),
      all_riasec_scores   |-> riasec_scores_,
      all_aptitude_scores |-> aptitude_scores_,
      max_riasec_score    |-> MaxValue(riasec_scores_),
      max_aptitude_score  |-> MaxValue(aptitude_scores_)]

\* results with tallies that start from those of the page returned last
results_Accumulating ==
  /\ resp' = IF ~started \/ answers = NoAnswers
             THEN Redirect("results", "index")
             ELSE LET last == resp.route = "results" /\ resp.kind = "page"
                      r0   == IF last THEN resp.all_riasec_scores ELSE ZeroTally
                      a0   == [a \in Range(NEW_APTITUDES) |->
                                 IF last
                                 THEN resp.all_aptitude_scores[
                                        CHOOSE i \in 1..Len(NEW_APTITUDES) :
                                          NEW_APTITUDES[i] = a].score
                                 ELSE 0]
                  IN ResultsPage(RiasecLoop(r0, DOMAIN answers, answers),
                                 Dict(NEW_APTITUDES,
                                      AptitudeLoop(a0, DOMAIN answers, answers, FALSE)))
  /\ UNCHANGED <<session, done, strays, call, result>>

results ==
  /\ resp' = IF ~started \/ answers = NoAnswers
             THEN Redirect("results", "index")
             ELSE LET scores == calculate_scores(answers, FALSE)
                  IN ResultsPage(scores.riasec, Dict(NEW_APTITUDES, scores.aptitude))
  /\ UNCHANGED <<session, done, strays, call, result>>

Next ==
  \/ start_assessment
  \/ restart
  \/ assessment
  \/ save_answer
  \/ submit_all_answers
  \/ results

Spec == Init /\ [][Next]_vars

(***************************************************************************)
(* One session of a user who answers every question that is served: the   *)
(* browser follows each redirect to /assessment, and each question served  *)
(* is answered by one save_answer request for that question                *)
(***************************************************************************)
StartOnce == ~started /\ start_assessment

AnswerServed ==
  /\ started /\ resp.kind = "question"
  /\ \E ans \in Labels : RecordAnswer(resp.question.number, ans)
  /\ UNCHANGED <<strays, call, result>>

NextLive ==
  \/ StartOnce
  \/ assessment
  \/ AnswerServed

SpecLive == Init /\ [][NextLive]_vars /\ WF_vars(assessment) /\ WF_vars(AnswerServed)

(***************************************************************************)
(* The pure functions applied to inputs drawn from bounded sets            *)
(***************************************************************************)
NoSession ==
  /\ SessionCleared
  /\ resp = [route |-> "none", kind |-> "none"]
  /\ done = FALSE
  /\ strays = 0

\* the tally of the scenario {R:5, I:5, A:4, S:2, E:1, C:0}
ExampleTally == [R |-> 5, I |-> 5, A |-> 4, S |-> 2, E |-> 1, C |-> 0]

\* tallies of six pairwise distinct scores: the scores 0..5, and scores two
\* or more apart, dealt to the letters in every order
Spread == {<<0, 1, 2, 3, 4, 5>>, <<0, 2, 4, 7, 9, 11>>}
DistinctTallies ==
  {[c \in Letters |-> s[p[c]]] :
     s \in Spread, p \in {q \in [Letters -> 1..6] : \A c, d \in Letters : q[c] = q[d] => c = d}}

Tallies == [Letters -> 0..MaxScore] \cup {ExampleTally} \cup DistinctTallies

\* key orders a tally mapping is given in
KeyOrders == {RIASEC, Alphabet, <<"C", "E", "S", "A", "I", "R">>, <<"S", "R", "A", "E", "C", "I">>}

TieCalls == {[fn |-> "tie", scores |-> t, order |-> o, delta |-> d] :
               t \in Tallies, o \in KeyOrders, d \in 0..MaxDelta}

InitTie == NoSession /\ call \in TieCalls /\ result = NoResult

CallIdentifyTiePairs ==
  /\ call.fn = "tie" /\ result = NoResult
  /\ result' = [status |-> "identify_tie_pairs",
                value  |-> identify_tie_pairs(Dict(call.order, call.scores), call.delta)]
  /\ UNCHANGED <<session, resp, done, strays, call>>

CallResolveRiasecCode ==
  /\ call.fn = "tie" /\ result = NoResult
  /\ result' = [status |-> "resolve_riasec_code",
                value  |-> resolve_riasec_code(Dict(call.order, call.scores))]
  /\ UNCHANGED <<session, resp, done, strays, call>>

NextTie ==
  \/ CallIdentifyTiePairs
  \/ CallResolveRiasecCode

SpecTie == InitTie /\ [][NextTie]_vars

\* Answer Records: keys of main questions, of a tie-breaker question, of numbers
\* that match no question in the main range (0) and beyond it (12), a key that
\* is no integer; labels of options and a label of no option
ScoreKeys == {"0", "1", "2", "3", "11", "12", "x"}
ScoreLabels == {"A", "B", "Z"}
AnswerRecords == UNION {[D -> ScoreLabels] : D \in SUBSET ScoreKeys}

ScoreCalls == {[fn |-> "calculate_scores", answers |-> a, use_text_enrichment |-> b] :
                 a \in AnswerRecords, b \in BOOLEAN}

InitScore == NoSession /\ call \in ScoreCalls /\ result = NoResult

CallCalculateScores ==
  /\ call.fn = "calculate_scores" /\ result = NoResult
  /\ result' = [status |-> "calculate_scores",
                value  |-> calculate_scores(call.answers, call.use_text_enrichment)]
  /\ UNCHANGED <<session, resp, done, strays, call>>

NextScore ==
  \/ CallCalculateScores

SpecScore == InitScore /\ [][NextScore]_vars

\* pair strings given to get_questions_for_pairs: those of the bank and two
\* without a question
SelPairs == BankPairs \cup {"A-R", "C-E"}

\* order: the sequence in which the for loop visits the set pairs
SelCalls == UNION {{[fn |-> "get_questions_for_pairs", pairs |-> ps, already_asked |-> al,
                     order |-> o] : al \in SUBSET SelPairs, o \in Perms(ps)} :
                   ps \in SUBSET SelPairs}

InitSel == NoSession /\ call \in SelCalls /\ result = NoResult

CallGetQuestionsForPairs ==
  /\ call.fn = "get_questions_for_pairs" /\ result = NoResult
  /\ result' = [status |-> "get_questions_for_pairs",
                value  |-> get_questions_for_pairs(call.order, call.already_asked)]
  /\ UNCHANGED <<session, resp, done, strays, call>>

NextSel ==
  \/ CallGetQuestionsForPairs

SpecSel == InitSel /\ [][NextSel]_vars

(***************************************************************************)
(* Properties                                                              *)
(***************************************************************************)
NoDuplicates(seq) == \A i, j \in 1..Len(seq) : seq[i] = seq[j] => i = j

\* the questions a step puts into session['tie_breaker_questions']
AssignedByStep ==
  {tie_breaker_questions'[i] : i \in {j \in 1..Len(tie_breaker_questions') :
      j > Len(tie_breaker_questions) \/ tie_breaker_questions'[j] # tie_breaker_questions[j]}}

\* C1: a step never puts into the assigned tie-breaker list a question whose
\* pair is already in tie_breaker_pairs_asked, and no question occurs twice
\* in session['tie_breaker_questions'].
C1_IdempotentPairResolution ==
  /\ [][\A q \in AssignedByStep : ~BagIn(q.pair, tie_breaker_pairs_asked)]_vars
  /\ [](NoDuplicates(tie_breaker_questions))

\* a pair with questions in the bank is still tied after its questions were
\* answered, and the flow has ended without assigning it again
C1_Witness ==
  /\ done /\ tie_breaker_phase
  /\ Len(tie_breaker_questions) > 0
  /\ tie_breaker_answered = Len(tie_breaker_questions)
  /\ \E p \in identify_tie_pairs(calculate_riasec(answers), TIE_BREAKER_DELTA) :
       /\ BagIn(p, tie_breaker_pairs_asked)
       /\ \E i \in 1..Len(tie_breaker_questions) : tie_breaker_questions[i].pair = p

\* C2: once assessment has redirected to submit_all_answers, assessment
\* serves no further question in the session.
C2_DoneIsTerminal == done => ~(resp.route = "assessment" /\ resp.kind = "question")

\* C3: identify_tie_pairs returns the same set for every key order of the
\* same six (letter, score) entries.
C3_OrderIndependent ==
  result.status = "identify_tie_pairs" =>
    \A o \in KeyOrders : identify_tie_pairs(Dict(o, call.scores), call.delta) = result.value

\* the entry (k, label) resolves to an option that carries a RIASEC letter
CountedEntry(k, label) ==
  \E n \in QNums :
    /\ DecStr[n + 1] = k
    /\ \E q \in (IF n <= Len(QUESTIONS) THEN Range(QUESTIONS) ELSE Range(TIE_BREAKER_QUESTIONS)) :
         /\ q.number = n
         /\ label \in DOMAIN q.options
         /\ q.options[label].riasec \in Letters

RECURSIVE SumScores(_)
SumScores(t) == IF t = <<>> THEN 0 ELSE Head(t).score + SumScores(Tail(t))

\* C4: every RIASEC and aptitude value calculate_scores returns is >= 0, and
\* the six RIASEC values sum to the number of entries that resolve to an
\* option carrying a RIASEC code.
C4_TallySum ==
  result.status = "calculate_scores" =>
    /\ \A i \in 1..Len(result.value.riasec) : result.value.riasec[i].score >= 0
    /\ \A a \in DOMAIN result.value.aptitude : result.value.aptitude[a] >= 0
    /\ SumScores(result.value.riasec)
         = Cardinality({k \in DOMAIN call.answers : CountedEntry(k, call.answers[k])})

C4_Witness ==
  /\ result.status = "calculate_scores"
  /\ DOMAIN call.answers = {"1", "3", "11", "12"}
  /\ call.answers["1"] = "A" /\ call.answers["3"] = "B" /\ call.answers["11"] = "B"
  /\ SumScores(result.value.riasec) = 2

\* C5: a save_answer request leaves every recorded answer as it was.
C5_AnswersOnlyAppended ==
  [][resp'.route = "save_answer" =>
       \A k \in DOMAIN answers : k \in DOMAIN answers' /\ answers'[k] = answers[k]]_vars

\* the item of the tally ranked first once the items at the indices in
\* `taken` are removed: the highest score, the earliest of the mapping on a tie
Best(items, taken) ==
  CHOOSE i \in (1..Len(items)) \ taken :
    \A j \in (1..Len(items)) \ taken :
      items[j].score < items[i].score \/ (items[j].score = items[i].score /\ i <= j)

AlphaPair(x, y) == IF Ord(x) < Ord(y) THEN x \o "-" \o y ELSE y \o "-" \o x

ExpectedTiePairs(items, delta) ==
  LET r1 == Best(items, {})
      r2 == Best(items, {r1})
      r3 == Best(items, {r1, r2})
      tied == {items[i].code : i \in {j \in 1..Len(items) : items[j].score = items[r3].score}}
  IN (IF items[r1].score - items[r2].score < delta
      THEN {AlphaPair(items[r1].code, items[r2].code)} ELSE {})
     \cup (IF items[r2].score - items[r3].score < delta
           THEN {AlphaPair(items[r2].code, items[r3].code)} ELSE {})
     \cup (IF Cardinality(tied) > 1
           THEN {AlphaPair(x, y) : <<x, y>> \in {xy \in tied \X tied : xy[1] # xy[2]}}
           ELSE {})

\* C6: identify_tie_pairs returns exactly the pair of the 1st and 2nd ranked
\* categories iff score1 - score2 < delta, the pair of the 2nd and 3rd ranked
\* iff score2 - score3 < delta, and every pair of categories whose score is
\* score3 when more than one has it (ranking: descending score, then the
\* order of the mapping); {R:5,I:5,A:4,S:2,E:1,C:0} with delta 1 gives {"I-R"}.
C6_TiePairs ==
  result.status = "identify_tie_pairs" =>
    /\ result.value = ExpectedTiePairs(Dict(call.order, call.scores), call.delta)
    /\ (call.scores = ExampleTally /\ call.delta = 1) => result.value = {"I-R"}

C6_Witness ==
  /\ result.status = "identify_tie_pairs"
  /\ call.scores = ExampleTally /\ call.delta = 1
  /\ result.value = {"I-R"}

\* letter c comes before letter d: higher score, or equal score and smaller letter
Precedes(scores, c, d) ==
  scores[c] > scores[d] \/ (scores[c] = scores[d] /\ Ord(c) < Ord(d))

First(scores, among) == CHOOSE c \in among : \A d \in among \ {c} : Precedes(scores, c, d)

ExpectedCode(scores) ==
  LET c1 == First(scores, Letters)
      c2 == First(scores, Letters \ {c1})
      c3 == First(scores, Letters \ {c1, c2})
  IN c1 \o c2 \o c3

\* C7: resolve_riasec_code returns the three letters that come first by
\* descending score and, on equal score, ascending letter, whatever the key
\* order of the tally; {R:5,I:5,A:4,S:2,E:1,C:0} gives "IRA".
C7_ResolveCode ==
  result.status = "resolve_riasec_code" =>
    /\ result.value = ExpectedCode(call.scores)
    /\ \A o \in KeyOrders : resolve_riasec_code(Dict(o, call.scores)) = result.value
    /\ call.scores = ExampleTally => result.value = "IRA"

C7_Witness ==
  /\ result.status = "resolve_riasec_code"
  /\ call.scores = ExampleTally /\ call.order = RIASEC
  /\ result.value = "IRA"

\* the first min(2, k) questions of the tie-breaker bank about the pair p
FirstTwo(p) ==
  LET idx == {i \in 1..Len(TIE_BREAKER_QUESTIONS) : TIE_BREAKER_QUESTIONS[i].pair = p}
      two == {i \in idx : Cardinality({j \in idx : j < i}) < 2}
  IN [n \in 1..Cardinality(two) |->
        TIE_BREAKER_QUESTIONS[CHOOSE i \in two : Cardinality({j \in two : j < i}) = n - 1]]

\* C8: for each pair of pairs that is not in already_asked the result holds
\* the first min(2, k) bank questions of that pair in bank order, and it holds
\* no question of a pair in already_asked or of a pair not in pairs.
C8_QuestionsForPairs ==
  result.status = "get_questions_for_pairs" =>
    /\ \A p \in call.pairs \ call.already_asked :
         SelectSeq(result.value, LAMBDA q : q.pair = p) = FirstTwo(p)
    /\ \A i \in 1..Len(result.value) :
         /\ result.value[i].pair \notin call.already_asked
         /\ result.value[i].pair \in call.pairs

C8_Witness ==
  /\ result.status = "get_questions_for_pairs"
  /\ call.pairs = {"I-R", "A-I", "A-R"} /\ call.already_asked = {"A-I"}
  /\ Len(result.value) = 2
  /\ result.value[1].number = 7 /\ result.value[2].number = 9

AllPairs == {AlphaPair(x, y) : <<x, y>> \in {xy \in Letters \X Letters : xy[1] # xy[2]}}

\* C9: for the all-zero tally and delta 1, identify_tie_pairs returns every
\* pair of the six categories, all of which share the third-place score 0.
C9_AllZero ==
  (/\ result.status = "identify_tie_pairs"
   /\ call.delta = 1
   /\ \A c \in Letters : call.scores[c] = 0)
  => result.value # {} /\ result.value = AllPairs

C9_Witness ==
  /\ result.status = "identify_tie_pairs"
  /\ call.delta = 1
  /\ \A c \in Letters : call.scores[c] = 0
  /\ Cardinality(result.value) = 15

\* the entry (k, label) names no question of the bank it is looked up in, or
\* a label that is not among the question's options
Malformed(k, label) ==
  \A n \in QNums :
    DecStr[n + 1] = k =>
      \A q \in (IF n <= Len(QUESTIONS) THEN Range(QUESTIONS) ELSE Range(TIE_BREAKER_QUESTIONS)) :
        q.number = n => label \notin DOMAIN q.options

Without(ans, k) == [x \in DOMAIN ans \ {k} |-> ans[x]]

Addressable ==
  {q \in Range(QUESTIONS) : q.number <= Len(QUESTIONS)}
  \cup {q \in Range(TIE_BREAKER_QUESTIONS) : q.number > Len(QUESTIONS)}

\* the options the entry under key k of the Answer Record selects: the one
\* option of the question with that number, none for an entry that is skipped
ChosenOptions(ans, k) ==
  {q.options[ans[k]] :
     q \in {x \in Addressable : DecStr[x.number + 1] = k /\ ans[k] \in DOMAIN x.options}}

\* the tallies of the Answer Record counted from zero
FreshRiasec(ans) ==
  [c \in Letters |->
     Cardinality({k \in DOMAIN ans : \E o \in ChosenOptions(ans, k) : o.riasec = c})]

FreshAptitude(ans) ==
  [a \in Range(NEW_APTITUDES) |->
     LET counted == {k \in DOMAIN ans : ChosenOptions(ans, k) # {}}
         gain    == [k \in counted |->
                       AptGain((CHOOSE o \in ChosenOptions(ans, k) : TRUE).aptitudes, a)]
     IN SumOver(counted, gain)]

\* C11: every call of calculate_scores (by assessment at the end of a phase
\* and by results, any number of times in any order) returns the tallies of
\* the Answer Record counted from zero, whatever was computed before, and the
\* request leaves answers, pointer and stored riasec_scores as they were;
\* results leaves the whole session as it was.
C11_RecomputeIdempotent ==
  /\ [][/\ resp'.route = "results" => UNCHANGED session
        /\ resp'.route = "assessment" =>
             UNCHANGED <<answers, current_question, riasec_scores, tie_breaker_answered>>]_vars
  /\ [](resp.route = "results" /\ resp.kind = "page" =>
          /\ resp.all_riasec_scores = Dict(RIASEC, FreshRiasec(answers))
          /\ resp.all_aptitude_scores = Dict(NEW_APTITUDES, FreshAptitude(answers)))

\* results after the tally was recomputed at the end of the main phase and
\* again at the end of a tie-breaker round
C11_Witness ==
  /\ resp.route = "results" /\ resp.kind = "page"
  /\ done /\ tie_breaker_phase /\ tie_breaker_answered > 0
  /\ resp.max_riasec_score > 0 /\ resp.max_aptitude_score > 0

\* C12: while no session is started (at first, or after restart) assessment
\* redirects to the start page and save_answer returns a failure that carries
\* the redirect to the start page; while the Answer Record is empty,
\* submit_all_answers and results redirect to the start page; none of these
\* requests changes the session; restart leaves no session and no answers.
C12_MustRestart ==
  /\ [][/\ (~started /\ resp'.route = "assessment") =>
             (resp' = Redirect("assessment", "index") /\ UNCHANGED session)
        /\ (~started /\ resp'.route = "save_answer") =>
             (resp' = Json(FALSE, "redirect index") /\ UNCHANGED session)
        /\ (answers = NoAnswers /\ resp'.route \in {"submit_all_answers", "results"}) =>
             (resp' = Redirect(resp'.route, "index") /\ UNCHANGED session)]_vars
  /\ [](resp.route = "restart" => ~started /\ answers = NoAnswers)

\* save_answer was refused for want of a session
C12_Witness ==
  /\ ~started /\ answers = NoAnswers /\ current_question = 0
  /\ resp = Json(FALSE, "redirect index")

\* C13: for a tally of six pairwise distinct scores identify_tie_pairs with
\* delta = 0 returns the empty set.
C13_DistinctNoPairs ==
  (/\ result.status = "identify_tie_pairs"
   /\ call.delta = 0
   /\ \A c, d \in Letters : call.scores[c] = call.scores[d] => c = d)
  => result.value = {}

\* the call was made on a tally whose first and second rank are one apart
C13_Witness ==
  /\ result.status = "identify_tie_pairs"
  /\ call.delta = 0
  /\ call.scores = [R |-> 5, I |-> 4, A |-> 3, S |-> 2, E |-> 1, C |-> 0]
  /\ result.value = {}

\* what an assessment request finds when it evaluates the tie-breakers
TallyNow == Dict(RIASEC, FreshRiasec(answers))
NeededNow == identify_tie_pairs(TallyNow, TIE_BREAKER_DELTA)
AskedNow == BagToSet(tie_breaker_pairs_asked)
HasQuestion(ps) == \E p \in ps : FirstTwo(p) # <<>>

\* qs holds, for each pair of ps, the first two bank questions of the pair,
\* and nothing else
BatchFor(qs, ps) ==
  /\ \A p \in ps : SelectSeq(qs, LAMBDA q : q.pair = p) = FirstTwo(p)
  /\ \A i \in 1..Len(qs) : qs[i].pair \in ps

ToDone == resp' = Redirect("assessment", "submit_all_answers")
ToAssessment == resp' = Redirect("assessment", "assessment")

MainExhausted == started /\ ~tie_breaker_phase /\ current_question > Len(QUESTIONS)

\* C14: an assessment request in the main phase with the pointer past the
\* last main question (a) redirects to submit_all_answers when the tally of
\* the answers needs no pair, (b) does so too when no needed pair that is not
\* yet asked has a bank question, (c) otherwise sets the tie-breaker phase,
\* assigns the first two bank questions of each such pair, has their pairs
\* marked asked, sets tie_breaker_answered to 0 and total_questions to the
\* main count plus the batch size; and an assessment request with the main
\* pointer within 1..N serves the main question under the pointer.
C14_MainExhaustion ==
  /\ [][(MainExhausted /\ resp'.route = "assessment") =>
          IF NeededNow = {}
          THEN ToDone /\ UNCHANGED session
          ELSE IF ~HasQuestion(NeededNow \ AskedNow)
          THEN /\ ToDone
               /\ UNCHANGED <<started, current_question, answers, riasec_scores,
                              tie_breaker_questions, tie_breaker_pairs_asked,
                              tie_breaker_answered, total_questions>>
          ELSE /\ ToAssessment
               /\ tie_breaker_phase'
               /\ BatchFor(tie_breaker_questions', NeededNow \ AskedNow)
               /\ \A i \in 1..Len(tie_breaker_questions') :
                    BagIn(tie_breaker_questions'[i].pair, tie_breaker_pairs_asked')
               /\ \A p \in AskedNow : BagIn(p, tie_breaker_pairs_asked')
               /\ tie_breaker_answered' = 0
               /\ total_questions' = Len(QUESTIONS) + Len(tie_breaker_questions')
               /\ UNCHANGED <<started, current_question, answers, riasec_scores>>]_vars
  /\ [][(started /\ current_question \in 1..Len(QUESTIONS) /\ resp'.route = "assessment") =>
          /\ resp'.kind = "question" /\ resp'.phase = "main"
          /\ resp'.question = QUESTIONS[current_question]
          /\ UNCHANGED session]_vars

\* every main question was answered in turn and the tally needed pairs with
\* bank questions: the batch is assigned and nothing of it is answered yet
C14_Witness ==
  /\ strays = 0 /\ tie_breaker_phase /\ ~done
  /\ resp = Redirect("assessment", "assessment")
  /\ current_question = Len(QUESTIONS) + 1
  /\ tie_breaker_answered = 0
  /\ Len(tie_breaker_questions) = 3
  /\ total_questions = Len(QUESTIONS) + 3

TieExhausted ==
  started /\ tie_breaker_phase /\ tie_breaker_answered >= Len(tie_breaker_questions)

\* the questions a step appends to session['tie_breaker_questions']
Appended ==
  SubSeq(tie_breaker_questions', Len(tie_breaker_questions) + 1, Len(tie_breaker_questions'))

\* C15: an assessment request in the tie-breaker phase with every assigned
\* question answered takes the tally of all answers and the needed pairs
\* that are not yet asked; when one of them has a bank question it appends
\* the first two bank questions of each such pair to the batch, has their
\* pairs marked asked, adds the number appended to total_questions, stays in
\* the tie-breaker phase and redirects to assessment; else it redirects to
\* submit_all_answers and changes nothing.
C15_TieExhaustion ==
  [][(TieExhausted /\ resp'.route = "assessment") =>
       IF HasQuestion(NeededNow \ AskedNow)
       THEN /\ ToAssessment
            /\ Len(tie_breaker_questions') > Len(tie_breaker_questions)
            /\ SubSeq(tie_breaker_questions', 1, Len(tie_breaker_questions))
                 = tie_breaker_questions
            /\ BatchFor(Appended, NeededNow \ AskedNow)
            /\ \A i \in 1..Len(Appended) : BagIn(Appended[i].pair, tie_breaker_pairs_asked')
            /\ \A p \in AskedNow : BagIn(p, tie_breaker_pairs_asked')
            /\ total_questions' = total_questions + Len(Appended)
            /\ UNCHANGED <<started, current_question, answers, riasec_scores,
                           tie_breaker_phase, tie_breaker_answered>>
       ELSE ToDone /\ UNCHANGED session]_vars

\* a second round: the answers to the first batch, given in turn, left a new
\* pair tied, and its questions were appended behind the answered ones
C15_Witness ==
  /\ strays = 0 /\ tie_breaker_phase /\ ~done
  /\ resp = Redirect("assessment", "assessment")
  /\ tie_breaker_answered > 0
  /\ Len(tie_breaker_questions) > tie_breaker_answered
  /\ total_questions = Len(QUESTIONS) + Len(tie_breaker_questions)

\* the step is a save_answer request that reported success
Saved == resp'.route = "save_answer" /\ resp'.success

\* the step wrote label a under the key of question number n and left the
\* other entries of the Answer Record as they were
Wrote(n, a) ==
  /\ DOMAIN answers' = DOMAIN answers \cup {DecStr[n + 1]}
  /\ answers'[DecStr[n + 1]] = a
  /\ \A k \in DOMAIN answers : k # DecStr[n + 1] => answers'[k] = answers[k]

\* the pairs of the tie-breaker bank questions numbered n
PairsOfNumber(n) == {q.pair : q \in {x \in Range(TIE_BREAKER_QUESTIONS) : x.number = n}}

Copies(p, asked) == IF BagIn(p, asked) THEN CopiesIn(p, asked) ELSE 0

\* C16: a save_answer request that reports success writes the answer under
\* the key of its question number; in the main phase current_question grows
\* by 1 and tie_breaker_answered, the batch and the phase flag are unchanged;
\* in the tie-breaker phase tie_breaker_answered grows by 1 and the batch and
\* the phase flag are unchanged; if the number is one of the tie-breaker
\* bank its pair is in tie_breaker_pairs_asked afterwards; no pair leaves
\* tie_breaker_pairs_asked and no pair ever occurs in it twice.
C16_SaveAnswerFrame ==
  /\ [][Saved =>
          /\ \E n \in QNumInputs, a \in Labels :
               /\ Wrote(n, a)
               /\ \A p \in PairsOfNumber(n) : BagIn(p, tie_breaker_pairs_asked')
               /\ \A p \in BagToSet(tie_breaker_pairs_asked') :
                    BagIn(p, tie_breaker_pairs_asked) \/ p \in PairsOfNumber(n)
          /\ IF ~tie_breaker_phase
             THEN /\ current_question' = current_question + 1
                  /\ UNCHANGED <<tie_breaker_answered, tie_breaker_questions,
                                 tie_breaker_phase>>
             ELSE /\ tie_breaker_answered' = tie_breaker_answered + 1
                  /\ UNCHANGED <<tie_breaker_questions, tie_breaker_phase>>
          /\ \A p \in BagToSet(tie_breaker_pairs_asked) :
               Copies(p, tie_breaker_pairs_asked') >= Copies(p, tie_breaker_pairs_asked)
          /\ UNCHANGED <<started, riasec_scores, total_questions>>]_vars
  /\ [](\A p \in BagToSet(tie_breaker_pairs_asked) : Copies(p, tie_breaker_pairs_asked) = 1)

\* a tie-breaker bank number was answered in the main phase, before any batch
\* was assigned, and save_answer itself recorded its pair
C16_Witness ==
  /\ resp = Json(TRUE, "redirect assessment")
  /\ ~tie_breaker_phase /\ tie_breaker_questions = <<>>
  /\ "8" \in DOMAIN answers
  /\ Copies("A-I", tie_breaker_pairs_asked) = 1
  /\ current_question > 1

\* C17: in every state of a started session total_questions is the number of
\* main questions plus the length of session['tie_breaker_questions'].
C17_TotalQuestions ==
  started => total_questions = Len(QUESTIONS) + Len(tie_breaker_questions)

\* tie-breaker questions are assigned, two are answered and one is open
C17_Witness ==
  /\ started /\ tie_breaker_phase
  /\ tie_breaker_answered >= 2
  /\ Len(tie_breaker_questions) > tie_breaker_answered
  /\ total_questions > Len(QUESTIONS) + tie_breaker_answered

\* C18: in a session whose every served question is answered, a started
\* session leads to the redirect to submit_all_answers; every assessment
\* step that assigns tie-breaker questions marks a pair that was not marked
\* before, no pair is unmarked during the session, the marked pairs are
\* among the 15 pairs of two letters, and at most two questions are assigned
\* per marked pair.
C18_Termination ==
  /\ started ~> done
  /\ [][/\ (resp'.route = "assessment" /\ ToAssessment) =>
             \E p \in BagToSet(tie_breaker_pairs_asked') : ~BagIn(p, tie_breaker_pairs_asked)
        /\ (resp'.route # "start_assessment") =>
             \A p \in BagToSet(tie_breaker_pairs_asked) : BagIn(p, tie_breaker_pairs_asked')]_vars
  /\ [](/\ BagToSet(tie_breaker_pairs_asked) \subseteq AllPairs
        /\ Cardinality(AllPairs) = 15
        /\ Len(tie_breaker_questions) <= 2 * Cardinality(BagToSet(tie_breaker_pairs_asked)))

\* the flow has ended after two rounds of tie-breaker questions
C18_Witness ==
  /\ done /\ started /\ strays = 0
  /\ tie_breaker_answered = 3 /\ Len(tie_breaker_questions) = 3
  /\ Cardinality(BagToSet(tie_breaker_pairs_asked)) >= 2
  /\ resp = Redirect("assessment", "submit_all_answers")

\* the key of the i-th assigned tie-breaker question is in the Answer Record
AnsweredAt(i) == DecStr[tie_breaker_questions[i].number + 1] \in DOMAIN answers

\* C19: in a session whose every served question is answered once,
\* tie_breaker_answered never exceeds the length of the batch; a tie-breaker
\* question that is served is the one at index tie_breaker_answered of the
\* batch; the questions before that index are answered and the one at it is
\* not answered before it is served; and when the flow redirects to
\* submit_all_answers every assigned question is answered.
C19_NoQuestionSkipped ==
  /\ [](tie_breaker_answered <= Len(tie_breaker_questions))
  /\ []((resp.route = "assessment" /\ resp.kind = "question" /\ resp.phase = "tie_breaker") =>
          /\ tie_breaker_answered < Len(tie_breaker_questions)
          /\ resp.question = tie_breaker_questions[tie_breaker_answered + 1]
          /\ resp.current_question = Len(QUESTIONS) + tie_breaker_answered + 1
          /\ ~AnsweredAt(tie_breaker_answered + 1))
  /\ [](\A i \in 1..Len(tie_breaker_questions) : i <= tie_breaker_answered => AnsweredAt(i))
  /\ [](done => /\ tie_breaker_answered = Len(tie_breaker_questions)
                /\ \A i \in 1..Len(tie_breaker_questions) : AnsweredAt(i))
  /\ [][(Saved /\ tie_breaker_phase) =>
          /\ tie_breaker_answered < Len(tie_breaker_questions)
          /\ Wrote(tie_breaker_questions[tie_breaker_answered + 1].number,
                   answers'[DecStr[tie_breaker_questions[tie_breaker_answered + 1].number + 1]])]_vars

\* the third question of the batch, of another pair than the first, is
\* served after the first two were answered
C19_Witness ==
  /\ resp.route = "assessment" /\ resp.kind = "question" /\ resp.phase = "tie_breaker"
  /\ tie_breaker_answered = 2 /\ Len(tie_breaker_questions) = 3
  /\ resp.question = tie_breaker_questions[3]
  /\ resp.question.pair # tie_breaker_questions[1].pair

\* the letters of a ranked list, joined
CodesOf(items) == Join([i \in 1..Len(items) |-> items[i].code])

\* C20: on every results page the three categories of top_riasec, in their
\* order, spell the riasec_code of the page.
C20_ResultsConsistent ==
  (resp.route = "results" /\ resp.kind = "page") =>
    CodesOf(resp.top_riasec) = resp.riasec_code

====
